---- MODULE Spec2Model ----
(***************************************************************************)
(* A model of esewa/payment.py (class EsewaPayment).                       *)
(*                                                                         *)
(* Representation of Python values                                         *)
(*   - a str is a sequence of atoms (TLA+ strings); "" is <<>>, and the    *)
(*     comma that str.split(",") looks for is the atom ",";                *)
(*   - a scalar is a record [t, s, n]: t is the Python type name, s the    *)
(*     text of a str, n the magnitude of an int or of a float n.0;         *)
(*   - a dict is a function from str keys to scalars;                      *)
(*   - an object's __dict__ is a function from attribute names to values,  *)
(*     an attribute that was never assigned is outside its DOMAIN;         *)
(*   - Optional[x] is <<>> for None and <<x>> otherwise.                   *)
(***************************************************************************)
EXTENDS Integers, Sequences, FiniteSets, TLC

VARIABLES
    settings,   \* django.conf.settings: a function from setting names to values
    sessions,   \* the EsewaPayment objects: id -> __dict__
    ret,        \* the last call: operation, arguments, result or exception
    last_sign   \* history: the most recent create_signature call

vars == <<settings, sessions, ret, last_sign>>

\* Amounts range over the ints 1..MaxAmount and the floats 1.0..MaxAmount.0
MaxAmount == 1

----------------------------------------------------------------------------
(* Python scalars *)

PyStr(s)   == [t |-> "str", s |-> s, n |-> 0]
PyInt(k)   == [t |-> "int", s |-> <<>>, n |-> k]
PyFloat(k) == [t |-> "float", s |-> <<>>, n |-> k]
PyNone     == [t |-> "NoneType", s |-> <<>>, n |-> 0]

\* bool(v): the truth value `if v:` and `v or w` test
Truthy(v) ==
    CASE v.t = "str" -> v.s # <<>>
      [] v.t \in {"int", "float"} -> v.n # 0
      [] OTHER -> FALSE

\* str(v), which is also what an f-string field {v} formats
str(v) ==
    CASE v.t = "str" -> v.s
      [] v.t = "int" -> <<ToString(v.n)>>
      [] v.t = "float" -> <<ToString(v.n), ".0">>
      [] OTHER -> <<"None">>

\* v == w on scalars: an int and a float compare by value
PyEq(v, w) ==
    IF v.t \in {"int", "float"} /\ w.t \in {"int", "float"}
    THEN v.n = w.n
    ELSE v = w

\* hasattr(obj, name) and getattr(obj, name, default)
hasattr(obj, name) == name \in DOMAIN obj
getattr(obj, name, default) == IF hasattr(obj, name) THEN obj[name] ELSE default

\* obj.name = value
setattr(obj, name, value) ==
    [a \in (DOMAIN obj) \cup {name} |-> IF a = name THEN value ELSE obj[a]]

\* the outcome of an expression: a value, or the exception it raised
Ok(v)      == [exc |-> "", val |-> <<v>>]
Raise(e)   == [exc |-> e, val |-> <<>>]
Val(r)     == r.val[1]

None == <<>>
Some(x) == <<x>>

----------------------------------------------------------------------------
(* EsewaPayment.__init__ *)

DEFAULT_PRODUCT_CODE == PyStr(<<"EPAYTEST">>)
DEFAULT_SECRET_KEY   == PyStr(<<"8gBm/:&EnhH.1/q">>)
DEFAULT_SUCCESS_URL  == PyStr(<<"http://localhost:8000/success/">>)
DEFAULT_FAILURE_URL  == PyStr(<<"http://localhost:8000/failure/">>)

SECRET_KEY_WARNING ==
    "Using default secret key for EsewaPayment. Please set ESEWA_SECRET_KEY in settings."
SUCCESS_URL_WARNING ==
    "Using default success URL for EsewaPayment. Please set ESEWA_SUCCESS_URL in settings."
FAILURE_URL_WARNING ==
    "Using default failure URL for EsewaPayment. Please set ESEWA_FAILURE_URL in settings."

\* One of the three "Handle ..." blocks of __init__: the value the attribute
\* gets and the warnings logged, for argument arg, setting name and default.
Resolve_ignoring_settings(arg, conf, name, default, warning) ==
    IF Truthy(arg)
    THEN [value |-> arg, warnings |-> <<>>]
    ELSE [value |-> IF Truthy(arg) THEN arg ELSE default,
          warnings |-> IF ~hasattr(conf, name) THEN <<warning>> ELSE <<>>]

Resolve(arg, conf, name, default, warning) ==
    IF Truthy(arg)
    THEN [value |-> arg, warnings |-> <<>>]
    ELSE [value |-> IF Truthy(arg) THEN arg ELSE getattr(conf, name, default),
          warnings |-> IF ~hasattr(conf, name) THEN <<warning>> ELSE <<>>]

__init__with_signature(product_code, success_url, failure_url, secret_key, conf) ==
    LET k == Resolve(secret_key, conf, "ESEWA_SECRET_KEY",
                     DEFAULT_SECRET_KEY, SECRET_KEY_WARNING)
        s == Resolve(success_url, conf, "ESEWA_SUCCESS_URL",
                     DEFAULT_SUCCESS_URL, SUCCESS_URL_WARNING)
        f == Resolve(failure_url, conf, "ESEWA_FAILURE_URL",
                     DEFAULT_FAILURE_URL, FAILURE_URL_WARNING)
    IN  [self |-> [a \in {"secret_key", "success_url", "failure_url", "product_code", "signature"} |->
                      CASE a = "secret_key" -> k.value
                        [] a = "success_url" -> s.value
                        [] a = "failure_url" -> f.value
                        [] a = "signature" -> PyNone
                        [] OTHER -> product_code],
         warnings |-> k.warnings \o s.warnings \o f.warnings]

\* __init__(self, product_code, success_url, failure_url, secret_key): the
\* new object's __dict__ and the warnings written to the logger, in order.
__init__(product_code, success_url, failure_url, secret_key, conf) ==
    LET k == Resolve(secret_key, conf, "ESEWA_SECRET_KEY",
                     DEFAULT_SECRET_KEY, SECRET_KEY_WARNING)
        s == Resolve(success_url, conf, "ESEWA_SUCCESS_URL",
                     DEFAULT_SUCCESS_URL, SUCCESS_URL_WARNING)
        f == Resolve(failure_url, conf, "ESEWA_FAILURE_URL",
                     DEFAULT_FAILURE_URL, FAILURE_URL_WARNING)
    IN  [self |-> [a \in {"secret_key", "success_url", "failure_url", "product_code"} |->
                      CASE a = "secret_key" -> k.value
                        [] a = "success_url" -> s.value
                        [] a = "failure_url" -> f.value
                        [] OTHER -> product_code],
         warnings |-> k.warnings \o s.warnings \o f.warnings]

----------------------------------------------------------------------------
(* esewa/signature.py: generate_signature (SignatureEngine.sign) *)

\* sep.join(parts) on a list of str
RECURSIVE join(_, _)
join(sep, parts) ==
    IF parts = <<>> THEN <<>>
    ELSE IF Len(parts) = 1 THEN parts[1]
    ELSE parts[1] \o sep \o join(sep, Tail(parts))

\* base64(HMAC-SHA256(key, message)) as a str: equal digests come from equal
\* keys and equal messages only
hmac_sha256_b64(key, message) ==
    <<"hmac-sha256[">> \o key \o <<"](">> \o message \o <<")">>

\* sign(fields_in_order, values, secret): the signature over the canonical
\* message name=value,name=value,..., or MissingFieldError
sign(fields_in_order, values, secret) ==
    IF \E i \in 1..Len(fields_in_order) : fields_in_order[i] \notin DOMAIN values
    THEN Raise("MissingFieldError")
    ELSE Ok(hmac_sha256_b64(secret,
                join(<<",">>, [i \in 1..Len(fields_in_order) |->
                                  fields_in_order[i] \o <<"=">> \o values[fields_in_order[i]]])))

SIGNED_FIELD_NAMES ==
    << <<"total_amount">>, <<"transaction_uuid">>, <<"product_code">> >>

generate_signature(total_amount, transaction_uuid, key, product_code) ==
    sign(SIGNED_FIELD_NAMES,
         [f \in {SIGNED_FIELD_NAMES[i] : i \in 1..3} |->
             CASE f = <<"total_amount">> -> str(total_amount)
               [] f = <<"transaction_uuid">> -> str(transaction_uuid)
               [] OTHER -> str(product_code)],
         str(key))

----------------------------------------------------------------------------
(* EsewaPayment.create_signature *)

\* the object after the call, and the call's outcome
create_signature_keeps_amount(self, total_amount, transaction_uuid) ==
    LET s1 == IF hasattr(self, "amount") THEN self
              ELSE setattr(self, "amount", total_amount)
        s2 == setattr(s1, "uuid", transaction_uuid)
        g  == generate_signature(total_amount, transaction_uuid,
                                 s2["secret_key"], s2["product_code"])
    IN  IF g.exc # ""
        THEN [self |-> s2, out |-> g]
        ELSE [self |-> setattr(s2, "signature", PyStr(Val(g))),
              out |-> Ok(PyStr(Val(g)))]

create_signature(self, total_amount, transaction_uuid) ==
    LET s1 == setattr(self, "amount", total_amount)
        s2 == setattr(s1, "uuid", transaction_uuid)
        g  == generate_signature(total_amount, transaction_uuid,
                                 s2["secret_key"], s2["product_code"])
    IN  IF g.exc # ""
        THEN [self |-> s2, out |-> g]
        ELSE [self |-> setattr(s2, "signature", PyStr(Val(g))),
              out |-> Ok(PyStr(Val(g)))]

----------------------------------------------------------------------------
(* The encodings verify_signature and get_status decode.                   *)
(*   encoded text : [t, ascii, junk, padding, data]  the argument: its     *)
(*                  Python type, whether it is pure ASCII, whether it      *)
(*                  holds characters outside the base64 alphabet, whether  *)
(*                  its data characters and padding form whole quanta,     *)
(*                  and the bytes they encode                              *)
(*   bytes        : [utf8, text]   whether they are well-formed UTF-8      *)
(*   text         : [json, value]  whether it is a well-formed JSON text   *)
(*   JSON value   : [t, d, v]      a dict d, a list, or a scalar v         *)

JsonDict(d)   == [t |-> "dict", d |-> d, v |-> PyNone]
JsonList      == [t |-> "list", d |-> <<>>, v |-> PyNone]
JsonScalar(v) == [t |-> "scalar", d |-> <<>>, v |-> v]

\* base64.b64decode(s) with validate=False: characters outside the alphabet
\* are discarded before the padding check
b64decode(x) ==
    IF x.t # "str" THEN Raise("TypeError")
    ELSE IF ~x.ascii THEN Raise("ValueError")
    ELSE IF x.padding # "ok" THEN Raise("binascii.Error")
    ELSE Ok(x.data)

\* bytes.decode("utf-8")
decode_utf8(b) == IF b.utf8 THEN Ok(b.text) ELSE Raise("UnicodeDecodeError")

\* json.loads(text)
json_loads(text) == IF text.json THEN Ok(text.value) ELSE Raise("JSONDecodeError")

\* base64.b64encode(json.dumps(payload).encode("utf-8")).decode()
json_dumps(d)  == [json |-> TRUE, value |-> JsonDict(d)]
encode_utf8(s) == [utf8 |-> TRUE, text |-> s]
b64encode(b)   == [t |-> "str", ascii |-> TRUE, junk |-> FALSE, padding |-> "ok", data |-> b]
Encode(d)      == b64encode(encode_utf8(json_dumps(d)))

\* value[key] on a decoded JSON value
getitem(value, key) ==
    IF value.t = "dict"
    THEN IF key \in DOMAIN value.d THEN Ok(value.d[key]) ELSE Raise("KeyError")
    ELSE Raise("TypeError")

\* value.get(key, default)
dict_get(value, key, default) ==
    IF value.t = "dict"
    THEN Ok(IF key \in DOMAIN value.d THEN value.d[key] ELSE default)
    ELSE Raise("AttributeError")

\* s.split(sep) on a str, for a one-character sep
RECURSIVE split(_, _)
split(s, sep) ==
    IF \A i \in 1..Len(s) : s[i] # sep
    THEN <<s>>
    ELSE LET i == CHOOSE k \in 1..Len(s) : s[k] = sep /\ \A m \in 1..(k - 1) : s[m] # sep
         IN  <<SubSeq(s, 1, i - 1)>> \o split(SubSeq(s, i + 1, Len(s)), sep)

----------------------------------------------------------------------------
(* EsewaPayment.verify_signature *)

\* the body of the try block: the pair it returns or the exception it raises
verify_signature_try_returns_data(self, response_body_base64) ==
    LET b == b64decode(response_body_base64) IN
    IF b.exc # "" THEN b ELSE
    LET u == decode_utf8(Val(b)) IN
    IF u.exc # "" THEN u ELSE
    LET j == json_loads(Val(u)) IN
    IF j.exc # "" THEN j ELSE
    LET response_data == Val(j)
        signed_field_names == getitem(response_data, <<"signed_field_names">>)
        received_signature == getitem(response_data, <<"signature">>)
    IN
    IF signed_field_names.exc # "" THEN signed_field_names ELSE
    IF received_signature.exc # "" THEN received_signature ELSE
    IF Val(signed_field_names).t # "str" THEN Raise("AttributeError") ELSE
    LET field_names == split(Val(signed_field_names).s, ",") IN
    IF \E i \in 1..Len(field_names) : getitem(response_data, field_names[i]).exc # ""
    THEN Raise("KeyError") ELSE
    LET message == join(<<",">>, [i \in 1..Len(field_names) |->
                        field_names[i] \o <<"=">>
                            \o str(Val(getitem(response_data, field_names[i])))])
    IN
    IF ~hasattr(self, "signature") THEN Raise("AttributeError") ELSE
    LET is_valid == PyEq(Val(received_signature), self["signature"])
    IN  Ok(<<is_valid, Some(response_data.d)>>)

verify_signature_try(self, response_body_base64) ==
    LET b == b64decode(response_body_base64) IN
    IF b.exc # "" THEN b ELSE
    LET u == decode_utf8(Val(b)) IN
    IF u.exc # "" THEN u ELSE
    LET j == json_loads(Val(u)) IN
    IF j.exc # "" THEN j ELSE
    LET response_data == Val(j)
        signed_field_names == getitem(response_data, <<"signed_field_names">>)
        received_signature == getitem(response_data, <<"signature">>)
    IN
    IF signed_field_names.exc # "" THEN signed_field_names ELSE
    IF received_signature.exc # "" THEN received_signature ELSE
    IF Val(signed_field_names).t # "str" THEN Raise("AttributeError") ELSE
    LET field_names == split(Val(signed_field_names).s, ",") IN
    IF \E i \in 1..Len(field_names) : getitem(response_data, field_names[i]).exc # ""
    THEN Raise("KeyError") ELSE
    LET message == join(<<",">>, [i \in 1..Len(field_names) |->
                        field_names[i] \o <<"=">>
                            \o str(Val(getitem(response_data, field_names[i])))])
    IN
    IF ~hasattr(self, "signature") THEN Raise("AttributeError") ELSE
    LET is_valid == PyEq(Val(received_signature), self["signature"])
    IN  Ok(<<is_valid, IF is_valid THEN Some(response_data.d) ELSE None>>)

\* except Exception: print(...); return False, None
verify_signature_except_decode_only(self, response_body_base64) ==
    LET r == verify_signature_try(self, response_body_base64)
    IN  IF r.exc \in {"TypeError", "ValueError", "binascii.Error",
                      "UnicodeDecodeError", "JSONDecodeError"}
        THEN Ok(<<FALSE, None>>) ELSE r

verify_signature(self, response_body_base64) ==
    LET r == verify_signature_try(self, response_body_base64)
    IN  IF r.exc # "" THEN Ok(<<FALSE, None>>) ELSE r

----------------------------------------------------------------------------
(* EsewaPayment.generate_form *)

\* the payload dict of generate_form, in insertion order
form_payload(self) ==
    << <<"amount", self["amount"]>>,
       <<"product_delivery_charge", PyStr(<<"0">>)>>,
       <<"product_service_charge", PyStr(<<"0">>)>>,
       <<"total_amount", self["amount"]>>,
       <<"tax_amount", PyInt(0)>>,
       <<"product_code", self["product_code"]>>,
       <<"transaction_uuid", self["uuid"]>>,
       <<"success_url", self["success_url"]>>,
       <<"failure_url", self["failure_url"]>>,
       <<"signed_field_names",
         PyStr(<<"total_amount", ",", "transaction_uuid", ",", "product_code">>)>>,
       <<"signature", self["signature"]>> >>

\* f'<input type="hidden" name="{key}" value="{value}">'
hidden_input(key, value) ==
    <<"<input type=\"hidden\" name=\"", key, "\" value=\"">> \o str(value) \o <<"\">">>

generate_form_uuid_first(self) ==
    IF ~hasattr(self, "amount") \/ ~hasattr(self, "uuid") \/ ~hasattr(self, "signature")
    THEN Raise("AttributeError")
    ELSE LET payload == form_payload(self)
             swapped == [i \in 1..Len(payload) |->
                            IF i = 6 THEN payload[7] ELSE IF i = 7 THEN payload[6]
                            ELSE payload[i]]
         IN  Ok(join(<<>>, [i \in 1..Len(swapped) |->
                               hidden_input(swapped[i][1], swapped[i][2])]))

generate_form(self) ==
    IF ~hasattr(self, "amount") \/ ~hasattr(self, "uuid") \/ ~hasattr(self, "signature")
    THEN Raise("AttributeError")
    ELSE LET payload == form_payload(self)
         IN  Ok(join(<<>>, [i \in 1..Len(payload) |->
                               hidden_input(payload[i][1], payload[i][2])]))

----------------------------------------------------------------------------
(* EsewaPayment.get_status and is_completed *)

\* the URL requests.get is called with
status_url(self, dev) ==
    <<IF dev THEN "https://uat.esewa.com.np" ELSE "https://epay.esewa.com.np",
      "/api/epay/transaction/status/?product_code=">> \o str(self["product_code"])
        \o <<"&total_amount=">> \o str(self["amount"])
        \o <<"&transaction_uuid=">> \o str(self["uuid"])

\* get_status(dev), response being what requests.get(url) does: it raises
\* (connected = FALSE) or returns a response with a status code and a body
get_status(self, dev, response) ==
    IF ~hasattr(self, "amount") \/ ~hasattr(self, "uuid")
    THEN Raise("AttributeError")
    ELSE IF ~response.connected THEN Raise("ConnectionError")
    ELSE IF response.status_code # 200 THEN Raise("RequestException")
    ELSE LET response_data == json_loads(response.body)
         IN  IF response_data.exc # "" THEN response_data
             ELSE dict_get(Val(response_data), <<"status">>, PyStr(<<"UNKNOWN">>))

is_completed_any_status(self, dev, response) ==
    LET status == get_status(self, dev, response)
    IN  IF status.exc # "" THEN status
        ELSE Ok(~PyEq(Val(status), PyStr(<<"UNKNOWN">>)))

is_completed(self, dev, response) ==
    LET status == get_status(self, dev, response)
    IN  IF status.exc # "" THEN status
        ELSE Ok(PyEq(Val(status), PyStr(<<"COMPLETE">>)))

----------------------------------------------------------------------------
(* EsewaPayment.__eq__ *)

\* a Python object: its class and its __dict__
Object(cls, dict) == [cls |-> cls, dict |-> dict]
isinstance(value, cls) == value.cls = cls

\* self == value
__eq__with_amount(self, value) ==
    IF ~isinstance(value, "EsewaPayment")
    THEN Ok(FALSE)
    ELSE Ok(/\ self["secret_key"] = value.dict["secret_key"]
            /\ self["product_code"] = value.dict["product_code"]
            /\ getattr(self, "amount", PyNone) = getattr(value.dict, "amount", PyNone))

__eq__(self, value) ==
    IF ~isinstance(value, "EsewaPayment")
    THEN Ok(FALSE)
    ELSE Ok(/\ self["secret_key"] = value.dict["secret_key"]
            /\ self["product_code"] = value.dict["product_code"])

----------------------------------------------------------------------------
(* Inputs of the construction *)

ProductCodes == {DEFAULT_PRODUCT_CODE, PyStr(<<"NP-ES-ABHISHEK-EPAY">>)}

\* what a caller passes for secret_key, success_url, failure_url
SecretKeyArgs  == {PyNone, PyStr(<<>>), PyStr(<<"test_secret_key">>)}
SuccessUrlArgs == {PyNone, PyStr(<<>>), PyStr(<<"http://test.com/success">>)}
FailureUrlArgs == {PyNone, PyStr(<<>>), PyStr(<<"http://test.com/failure">>)}

SettingNames == {"ESEWA_SECRET_KEY", "ESEWA_SUCCESS_URL", "ESEWA_FAILURE_URL"}

\* the value a project configures for a setting: a string, possibly empty
SettingValues(name) == {PyStr(<<"settings.", name>>), PyStr(<<>>)}

\* every configured settings object over SettingNames
AllSettings ==
    UNION { { c \in [D -> UNION {SettingValues(nm) : nm \in SettingNames}] :
                \A nm \in D : c[nm] \in SettingValues(nm) } :
            D \in SUBSET SettingNames }

NoCall == [op |-> "", self |-> 0, raised |-> ""]
NoSign == [called |-> FALSE]

----------------------------------------------------------------------------
(* Inputs of the operations *)

Amounts == {PyInt(k) : k \in 1..MaxAmount} \cup {PyFloat(k) : k \in 1..MaxAmount}
Uuids   == {PyStr(<<"11-201-13">>), PyStr(<<"test-uuid-123">>)}

\* the secret keys and settings of the sessions the operations run on
SessionSecretKeyArgs == {PyNone, PyStr(<<"test_secret_key">>)}
SessionSettings == {c \in AllSettings : DOMAIN c = {}}
\* the signatures a session with self's secret key and product code can hold
SignaturesOf(self) ==
    {Val(generate_signature(a, u, self["secret_key"], self["product_code"])) :
        a \in Amounts, u \in Uuids}

\* the callback payloads: what the gateway, or anybody else, can send
FULL_FIELD_NAMES == <<"total_amount", ",", "transaction_uuid", ",", "product_code">>

SignatureChoices(self) ==
    {None, Some(PyNone), Some(PyStr(<<"forged">>))}
        \cup {Some(PyStr(s)) : s \in SignaturesOf(self)}

BUSINESS_FIELDS ==
    [f \in {<<"total_amount">>, <<"transaction_uuid">>, <<"product_code">>} |->
        CASE f = <<"total_amount">> -> PyStr(<<"1,000.0">>)
          [] f = <<"transaction_uuid">> -> PyStr(<<"240613-134231">>)
          [] OTHER -> PyStr(<<"NP-ES-ABHISHEK-EPAY">>)]

\* signed_field_names (when present) and the business fields of a payload
PayloadShapes ==
    {<<None, BUSINESS_FIELDS>>,
     <<Some(PyStr(FULL_FIELD_NAMES)), BUSINESS_FIELDS>>,
     <<Some(PyStr(FULL_FIELD_NAMES)), <<>> >>,
     <<Some(PyStr(<<"signed_field_names">>)), <<>> >>,
     <<Some(PyStr(<<>>)), <<>> >>,
     <<Some(PyInt(1)), <<>> >>}

\* the dict with the business fields, and signed_field_names and signature
\* when given
Payload(sfn, sig, business) ==
    [k \in (DOMAIN business)
            \cup (IF sfn = None THEN {} ELSE {<<"signed_field_names">>})
            \cup (IF sig = None THEN {} ELSE {<<"signature">>}) |->
        IF k = <<"signed_field_names">> THEN sfn[1]
        ELSE IF k = <<"signature">> THEN sig[1]
        ELSE business[k]]

Payloads(self) ==
    {Payload(shape[1], sig, shape[2]) :
        shape \in PayloadShapes, sig \in SignatureChoices(self)}

\* the texts whose JSON is not an object with the two keys, and the
\* arguments that do not decode to a text
BadText  == [json |-> FALSE, value |-> JsonList]
BadBytes == [utf8 |-> FALSE, text |-> BadText]

Malformed ==
    {[t |-> "NoneType", ascii |-> TRUE, junk |-> FALSE, padding |-> "ok", data |-> BadBytes],
     [t |-> "str", ascii |-> FALSE, junk |-> TRUE, padding |-> "ok", data |-> BadBytes],
     [t |-> "str", ascii |-> TRUE, junk |-> FALSE, padding |-> "incorrect", data |-> BadBytes],
     [t |-> "str", ascii |-> TRUE, junk |-> TRUE, padding |-> "incorrect", data |-> BadBytes],
     b64encode(BadBytes),
     b64encode(encode_utf8(BadText)),
     b64encode(encode_utf8([json |-> TRUE, value |-> JsonList])),
     b64encode(encode_utf8([json |-> TRUE, value |-> JsonScalar(PyStr(<<"signature">>))])),
     b64encode(encode_utf8([json |-> TRUE, value |-> JsonScalar(PyNone)]))}

\* an encoded payload with characters outside the base64 alphabet in it
WithJunk(x) == [x EXCEPT !.junk = TRUE]

\* what can be passed to verify_signature of a session: junk is put into
\* the encodings of the payloads that name only signed_field_names
Inputs(self) ==
    Malformed
        \cup {Encode(d) : d \in Payloads(self)}
        \cup {WithJunk(Encode(Payload(Some(PyStr(<<"signed_field_names">>)), sig, <<>>))) :
                sig \in SignatureChoices(self)}

\* what the status endpoint can answer
GatewayStatuses ==
    {<<"COMPLETE">>, <<"PENDING">>, <<"FULL_REFUND">>, <<"PARTIAL_REFUND">>,
     <<"AMBIGUOUS">>, <<"NOT_FOUND">>, <<"CANCELED">>}

StatusBodies ==
    {BadText,
     [json |-> TRUE, value |-> JsonList],
     json_dumps(<<>>)}
        \cup {json_dumps([k \in {<<"status">>} |-> v]) :
                v \in {PyStr(s) : s \in GatewayStatuses}
                        \cup {PyStr(<<"UNKNOWN">>), PyStr(<<"SUCCESS">>), PyNone}}

Responses ==
    [connected : {TRUE}, status_code : {200}, body : StatusBodies]
        \cup [connected : {TRUE}, status_code : {404},
              body : {json_dumps([k \in {<<"status">>} |-> PyStr(<<"COMPLETE">>)])}]
        \cup [connected : {FALSE}, status_code : {0}, body : {BadText}]

\* the values a session is compared with that are no EsewaPayment
NonSessions(objs) ==
    {Object("NoneType", <<>>), Object("dict", <<>>)}
        \cup {Object("SimpleNamespace", objs[i]) : i \in DOMAIN objs}

Result(out) == IF out.exc = "" THEN Val(out) ELSE None

----------------------------------------------------------------------------
(* Construction: SpecInit starts before the object exists *)

InitNew ==
    /\ settings \in AllSettings
    /\ sessions = <<>>
    /\ ret = NoCall
    /\ last_sign = <<>>

Construct(product_code, success_url, failure_url, secret_key) ==
    /\ sessions = <<>>
    /\ LET r == __init__(product_code, success_url, failure_url, secret_key, settings)
       IN  /\ sessions' = <<r.self>>
           /\ ret' = [op |-> "__init__", self |-> 1, raised |-> "",
                      product_code |-> product_code, success_url |-> success_url,
                      failure_url |-> failure_url, secret_key |-> secret_key,
                      warnings |-> r.warnings]
    /\ last_sign' = <<NoSign>>
    /\ UNCHANGED settings

NextNew ==
    \E p \in ProductCodes, s \in SuccessUrlArgs, f \in FailureUrlArgs, k \in SecretKeyArgs :
        Construct(p, s, f, k)

SpecInit == InitNew /\ [][NextNew]_vars

----------------------------------------------------------------------------
(* The operations on a constructed session *)

\* the sessions __init__ builds from the session inputs
NewSessions(conf) ==
    {__init__(p, PyNone, PyNone, k, conf).self : p \in ProductCodes, k \in SessionSecretKeyArgs}

Init ==
    /\ settings \in SessionSettings
    /\ \E s \in NewSessions(settings) : sessions = <<s>>
    /\ ret = NoCall
    /\ last_sign = <<NoSign>>

CreateSignature(i, total_amount, transaction_uuid) ==
    LET r == create_signature(sessions[i], total_amount, transaction_uuid)
    IN  /\ sessions' = [sessions EXCEPT ![i] = r.self]
        /\ ret' = [op |-> "create_signature", self |-> i, raised |-> r.out.exc,
                   total_amount |-> total_amount, transaction_uuid |-> transaction_uuid,
                   value |-> Result(r.out)]
        /\ last_sign' = [last_sign EXCEPT ![i] =
                            [called |-> TRUE, raised |-> r.out.exc,
                             overwrote |-> /\ hasattr(sessions[i], "signature")
                                           /\ sessions[i]["amount"] # total_amount
                                           /\ sessions[i]["uuid"] # transaction_uuid,
                             total_amount |-> total_amount,
                             transaction_uuid |-> transaction_uuid,
                             value |-> Result(r.out)]]
        /\ UNCHANGED settings

VerifySignatureForgets(i, response_body_base64) ==
    LET r == verify_signature(sessions[i], response_body_base64)
    IN  /\ ret' = [op |-> "verify_signature", self |-> i, raised |-> r.exc,
                   response_body_base64 |-> response_body_base64, value |-> Result(r)]
        /\ sessions' = [sessions EXCEPT ![i] =
                           [a \in (DOMAIN @) \ {"signature"} |-> @[a]]]
        /\ UNCHANGED <<settings, last_sign>>

VerifySignature(i, response_body_base64) ==
    LET r == verify_signature(sessions[i], response_body_base64)
    IN  /\ ret' = [op |-> "verify_signature", self |-> i, raised |-> r.exc,
                   response_body_base64 |-> response_body_base64, value |-> Result(r)]
        /\ UNCHANGED <<settings, sessions, last_sign>>

GenerateForm(i) ==
    LET r == generate_form(sessions[i])
    IN  /\ ret' = [op |-> "generate_form", self |-> i, raised |-> r.exc, value |-> Result(r)]
        /\ UNCHANGED <<settings, sessions, last_sign>>

GetStatus(i, dev, response) ==
    LET r == get_status(sessions[i], dev, response)
    IN  /\ ret' = [op |-> "get_status", self |-> i, raised |-> r.exc,
                   dev |-> dev, response |-> response, value |-> Result(r)]
        /\ UNCHANGED <<settings, sessions, last_sign>>

IsCompleted(i, dev, response) ==
    LET r == is_completed(sessions[i], dev, response)
    IN  /\ ret' = [op |-> "is_completed", self |-> i, raised |-> r.exc,
                   dev |-> dev, response |-> response, value |-> Result(r)]
        /\ UNCHANGED <<settings, sessions, last_sign>>

Next ==
    \/ \E i \in DOMAIN sessions, a \in Amounts, u \in Uuids : CreateSignature(i, a, u)
    \/ \E i \in DOMAIN sessions : \E x \in Inputs(sessions[i]) : VerifySignature(i, x)
    \/ \E i \in DOMAIN sessions : GenerateForm(i)
    \/ \E i \in DOMAIN sessions, dev \in BOOLEAN, response \in Responses :
          GetStatus(i, dev, response)
    \/ \E i \in DOMAIN sessions, dev \in BOOLEAN, response \in Responses :
          IsCompleted(i, dev, response)

Spec == Init /\ [][Next]_vars

----------------------------------------------------------------------------
(* Two sessions and their comparison *)

InitEq ==
    /\ settings \in SessionSettings
    /\ \E s1 \in NewSessions(settings), s2 \in NewSessions(settings) :
          /\ s1 = __init__(DEFAULT_PRODUCT_CODE, PyNone, PyNone, PyNone, settings).self
          /\ sessions = <<s1, s2>>
    /\ ret = NoCall
    /\ last_sign = <<NoSign, NoSign>>

Eq(i, value) ==
    LET r == __eq__(sessions[i], value)
    IN  /\ ret' = [op |-> "__eq__", self |-> i, raised |-> r.exc,
                   other |-> value, value |-> Result(r)]
        /\ UNCHANGED <<settings, sessions, last_sign>>

NextEq ==
    \/ \E i \in DOMAIN sessions, a \in Amounts, u \in Uuids : CreateSignature(i, a, u)
    \/ \E i \in DOMAIN sessions, j \in DOMAIN sessions :
          Eq(i, Object("EsewaPayment", sessions[j]))
    \/ \E i \in DOMAIN sessions : \E v \in NonSessions(sessions) : Eq(i, v)

SpecEq == InitEq /\ [][NextEq]_vars

----------------------------------------------------------------------------
(* The claims *)

\* the payload an argument of verify_signature carries, when it carries one
PayloadOf(x) == x.data.text.value.d

\* x is the base64 JSON encoding of a JSON object
IsEncodedObject(x) ==
    /\ x.t = "str"
    /\ x.data.text.value.t = "dict"
    /\ x = Encode(PayloadOf(x))

HasBothKeys(d) == <<"signed_field_names">> \in DOMAIN d /\ <<"signature">> \in DOMAIN d

\* signed_field_names is a str and every name it lists is a key of d
NamesPresent(d) ==
    /\ d[<<"signed_field_names">>].t = "str"
    /\ LET names == split(d[<<"signed_field_names">>].s, ",")
       IN  \A i \in 1..Len(names) : names[i] \in DOMAIN d

Signed(i) == last_sign[i].called /\ hasattr(sessions[i], "signature")

\* C1, as amended: on a signed session, the base64 JSON encoding of a JSON
\* object with signed_field_names and signature verifies as (True, payload)
\* when, and only when, its signature equals the stored signature and every
\* name in its signed_field_names (a string) is a key of it; otherwise the
\* result is (False, None).
C1_RoundTrip ==
    (/\ ret.op = "verify_signature"
     /\ Signed(ret.self)
     /\ IsEncodedObject(ret.response_body_base64)
     /\ HasBothKeys(PayloadOf(ret.response_body_base64)))
    => LET d == PayloadOf(ret.response_body_base64)
       IN  /\ ret.raised = ""
           /\ ret.value =
                IF d[<<"signature">>] = sessions[ret.self]["signature"] /\ NamesPresent(d)
                THEN <<TRUE, Some(d)>>
                ELSE <<FALSE, None>>

C1_Accepted ==
    /\ ret.op = "verify_signature"
    /\ Signed(ret.self)
    /\ IsEncodedObject(ret.response_body_base64)
    /\ HasBothKeys(PayloadOf(ret.response_body_base64))
    /\ ret.value = <<TRUE, Some(PayloadOf(ret.response_body_base64))>>
    /\ DOMAIN BUSINESS_FIELDS \subseteq DOMAIN PayloadOf(ret.response_body_base64)

\* C1, as claimed: on a signed session, the base64 JSON encoding of a JSON
\* object with signed_field_names and signature verifies as (True, payload)
\* when, and only when, its signature equals the stored signature; otherwise
\* the result is (False, None).
C1_RoundTrip_AsClaimed ==
    (/\ ret.op = "verify_signature"
     /\ Signed(ret.self)
     /\ IsEncodedObject(ret.response_body_base64)
     /\ HasBothKeys(PayloadOf(ret.response_body_base64)))
    => LET d == PayloadOf(ret.response_body_base64)
       IN  /\ ret.raised = ""
           /\ ret.value =
                IF d[<<"signature">>] = sessions[ret.self]["signature"]
                THEN <<TRUE, Some(d)>>
                ELSE <<FALSE, None>>

\* the argument cannot be decoded to a JSON object with both keys: b64decode
\* rejects it (not a str, not ASCII, or data and padding that form no whole
\* quanta), or the bytes are not UTF-8, or the text is not JSON, or the JSON
\* is no object, or a key is missing
Undecodable(x) ==
    \/ x.t # "str"
    \/ ~x.ascii
    \/ x.padding # "ok"
    \/ ~x.data.utf8
    \/ ~x.data.text.json
    \/ x.data.text.value.t # "dict"
    \/ ~HasBothKeys(PayloadOf(x))

STATUS_VALUES == {PyStr(s) : s \in GatewayStatuses \cup {<<"UNKNOWN">>}}

\* the status field of a response body that is a JSON object
BodyStatus(response) ==
    LET d == response.body.value.d
    IN  IF <<"status">> \in DOMAIN d THEN Some(d[<<"status">>]) ELSE None

\* C3: for every HTTP 200 response, the value get_status returns is one of
\* COMPLETE, PENDING, FULL_REFUND, PARTIAL_REFUND, AMBIGUOUS, NOT_FOUND,
\* CANCELED, UNKNOWN, and it is UNKNOWN when the body has no status key or its
\* status is none of the gateway's values.
C3_StatusMapping ==
    (ret.op = "get_status" /\ ret.raised = "" /\ ret.response.status_code = 200)
    => /\ ret.value \in STATUS_VALUES
       /\ (\/ BodyStatus(ret.response) = None
           \/ BodyStatus(ret.response)[1] \notin {PyStr(s) : s \in GatewayStatuses})
          => ret.value = PyStr(<<"UNKNOWN">>)

\* the response is HTTP 200 with a JSON object as its body
FetchedObject(response) ==
    /\ response.connected
    /\ response.status_code = 200
    /\ response.body.json
    /\ response.body.value.t = "dict"

\* C4, as amended: on a signed session is_completed returns True or False
\* whenever the status request answers HTTP 200 with a JSON object, and True
\* exactly when that object's status is "COMPLETE"; a non-200 response is
\* raised to the caller as RequestException, and a failed request or a body
\* that is no JSON object raises as well.
C4_Completed ==
    (ret.op = "is_completed" /\ Signed(ret.self))
    => IF FetchedObject(ret.response)
       THEN /\ ret.raised = ""
            /\ ret.value \in BOOLEAN
            /\ ret.value = (BodyStatus(ret.response) = Some(PyStr(<<"COMPLETE">>)))
       ELSE /\ ret.raised # ""
            /\ (ret.response.connected /\ ret.response.status_code # 200)
                    => ret.raised = "RequestException"

C4_CompletedTrue ==
    /\ ret.op = "is_completed"
    /\ Signed(ret.self)
    /\ ret.raised = ""
    /\ ret.value = TRUE

\* C4, as claimed: on a signed session is_completed returns True or False for
\* every outcome of the status request, a non-200 response included, and True
\* exactly when the fetched status is COMPLETE.
C4_Completed_AsClaimed ==
    (/\ ret.op = "is_completed"
     /\ Signed(ret.self)
     /\ ret.response.connected
     /\ ret.response.body.json
     /\ ret.response.body.value.t = "dict")
    => /\ ret.raised = ""
       /\ ret.value \in BOOLEAN
       /\ ret.value = (BodyStatus(ret.response) = Some(PyStr(<<"COMPLETE">>)))

\* C5: a == b holds iff the two sessions' secret_key are equal and their
\* product_code are equal, whatever create_signature calls were made on
\* either; a session compared with a value that is no session is not equal,
\* and no comparison raises.
C5_Equality ==
    /\ \A i \in DOMAIN sessions, j \in DOMAIN sessions :
          __eq__(sessions[i], Object("EsewaPayment", sessions[j]))
              = Ok(/\ sessions[i]["secret_key"] = sessions[j]["secret_key"]
                   /\ sessions[i]["product_code"] = sessions[j]["product_code"])
    /\ ret.op = "__eq__"
       => /\ ret.raised = ""
          /\ ret.value =
                IF ret.other.cls = "EsewaPayment"
                THEN /\ sessions[ret.self]["secret_key"] = ret.other.dict["secret_key"]
                     /\ sessions[ret.self]["product_code"] = ret.other.dict["product_code"]
                ELSE FALSE

C5_EqualDespiteTransaction ==
    /\ ret.op = "__eq__"
    /\ ret.value = TRUE
    /\ ret.other.cls = "EsewaPayment"
    /\ Signed(ret.self)
    /\ hasattr(ret.other.dict, "signature")
    /\ sessions[ret.self]["amount"] # ret.other.dict["amount"]
    /\ sessions[ret.self]["uuid"] # ret.other.dict["uuid"]
    /\ sessions[ret.self]["signature"] # ret.other.dict["signature"]

\* the three attributes __init__ resolves: argument, setting, default, warning
RESOLVED ==
    << <<"secret_key", "ESEWA_SECRET_KEY", DEFAULT_SECRET_KEY, SECRET_KEY_WARNING>>,
       <<"success_url", "ESEWA_SUCCESS_URL", DEFAULT_SUCCESS_URL, SUCCESS_URL_WARNING>>,
       <<"failure_url", "ESEWA_FAILURE_URL", DEFAULT_FAILURE_URL, FAILURE_URL_WARNING>> >>

\* an explicit argument is one that is neither None nor empty
Supplied(arg) == arg.t # "NoneType" /\ arg # PyStr(<<>>)

DefaultUsed(arg, name) == ~Supplied(arg) /\ name \notin DOMAIN settings

ExpectedForm(fields) ==
    join(<<>>, [n \in 1..Len(fields) |->
                   <<"<input type=\"hidden\" name=\"", fields[n][1], "\" value=\"">>
                       \o fields[n][2] \o <<"\">">>])

\* C7: after create_signature calls, generate_form emits exactly the hidden
\* fields amount, product_delivery_charge, product_service_charge,
\* total_amount, tax_amount, product_code, transaction_uuid, success_url,
\* failure_url, signed_field_names, signature, in that order, the charges and
\* the tax being 0, signed_field_names the literal
\* "total_amount,transaction_uuid,product_code", and amount, total_amount,
\* transaction_uuid, product_code and signature those of the most recent
\* create_signature call.
C7_Form ==
    (ret.op = "generate_form" /\ last_sign[ret.self].called)
    => LET call == last_sign[ret.self]
           self == sessions[ret.self]
       IN  /\ ret.raised = ""
           /\ ret.value = ExpectedForm(<<
                <<"amount", str(call.total_amount)>>,
                <<"product_delivery_charge", <<"0">> >>,
                <<"product_service_charge", <<"0">> >>,
                <<"total_amount", str(call.total_amount)>>,
                <<"tax_amount", <<"0">> >>,
                <<"product_code", self["product_code"].s>>,
                <<"transaction_uuid", call.transaction_uuid.s>>,
                <<"success_url", self["success_url"].s>>,
                <<"failure_url", self["failure_url"].s>>,
                <<"signed_field_names",
                  <<"total_amount", ",", "transaction_uuid", ",", "product_code">> >>,
                <<"signature", call.value.s>> >>)

C7_FormAfterResigning ==
    /\ ret.op = "generate_form"
    /\ last_sign[ret.self].called
    /\ last_sign[ret.self].overwrote
    /\ ret.raised = ""

CONFIG == {"secret_key", "product_code", "success_url", "failure_url"}

\* the attributes of a signed session are those of the most recent call
StoredIsLastCall ==
    \A i \in DOMAIN sessions :
        last_sign[i].called
        => /\ DOMAIN sessions[i] = CONFIG \cup {"amount", "uuid", "signature"}
           /\ sessions[i]["amount"] = last_sign[i].total_amount
           /\ sessions[i]["uuid"] = last_sign[i].transaction_uuid
           /\ last_sign[i].raised = ""
           /\ sessions[i]["signature"] = last_sign[i].value
           /\ last_sign[i].value.t = "str"

\* C8: after any sequence of create_signature calls the stored amount, uuid
\* and signature are those of the most recent call, each call returns the
\* signature it stores, and no call changes secret_key, product_code,
\* success_url or failure_url.
C8_Overwrite ==
    /\ []StoredIsLastCall
    /\ [][\A i \in DOMAIN sessions : \A a \in CONFIG : sessions'[i][a] = sessions[i][a]]_vars

C8_Resigned ==
    /\ ret.op = "create_signature"
    /\ last_sign[ret.self].overwrote
    /\ ret.value = sessions[ret.self]["signature"]

\* C9, as amended: the outcome verify_signature returned for a payload is
\* unchanged by get_status, is_completed, generate_form and verify_signature,
\* which leave the session as it is, so verifying the payload again returns
\* the same result until create_signature is called; create_signature runs in
\* every state of the session and replaces the signature the outcome rests on.
C9_OutcomeStable ==
    [][ret'.op # "create_signature"
       => /\ sessions' = sessions
          /\ ret.op = "verify_signature"
             => verify_signature(sessions'[ret.self], ret.response_body_base64)
                    = Ok(ret.value)]_vars

C9_RejectedGenuine ==
    /\ ret.op = "verify_signature"
    /\ Signed(ret.self)
    /\ ret.value = <<FALSE, None>>
    /\ IsEncodedObject(ret.response_body_base64)
    /\ HasBothKeys(PayloadOf(ret.response_body_base64))
    /\ NamesPresent(PayloadOf(ret.response_body_base64))
    /\ PayloadOf(ret.response_body_base64)[<<"signature">>].s \in SignaturesOf(sessions[ret.self])

\* C9, as claimed: once verify_signature has returned an outcome for a
\* payload, no later operation on the session changes it: verifying the same
\* payload again returns the same result.
C9_Terminal_AsClaimed ==
    [][ret.op = "verify_signature"
       => verify_signature(sessions'[ret.self], ret.response_body_base64)
              = Ok(ret.value)]_vars

\* C10: a session on which create_signature was never called holds no
\* signature, and verify_signature on it returns (False, None) for every
\* argument, a well-formed payload with any signature value included.
C10_NothingBeforeSigning ==
    \A i \in DOMAIN sessions :
        ~last_sign[i].called
        => /\ ~hasattr(sessions[i], "signature")
           /\ \A x \in Inputs(sessions[i]) :
                verify_signature(sessions[i], x) = Ok(<<FALSE, None>>)
           /\ (ret.op = "verify_signature" /\ ret.self = i)
              => (ret.raised = "" /\ ret.value = <<FALSE, None>>)

C10_RejectedUnsigned ==
    /\ ret.op = "verify_signature"
    /\ ~last_sign[ret.self].called
    /\ IsEncodedObject(ret.response_body_base64)
    /\ HasBothKeys(PayloadOf(ret.response_body_base64))
    /\ NamesPresent(PayloadOf(ret.response_body_base64))
    /\ PayloadOf(ret.response_body_base64)[<<"signature">>].s \in SignaturesOf(sessions[ret.self])
    /\ ret.value = <<FALSE, None>>

====
